---------------------------- MODULE Spec2Model ----------------------------
(***************************************************************************)
(* Klondike Solitaire rules engine and undo/redo store.                    *)
(*                                                                         *)
(* The state is the store's single mutable cell, `history` (past, present, *)
(* future), together with a record of the last store action and how it     *)
(* ended.  Game states are immutable values; every store action computes a *)
(* new history from the old one with the pure functions of the game        *)
(* module (validateMove, applyMove, drawFromStock, performAutoComplete)    *)
(* and of the history module (pushToHistory, undoHistory, redoHistory).    *)
(*                                                                         *)
(* JavaScript details that decide behaviour are kept: Array.slice/splice   *)
(* with negative or out-of-range indices, property reads of `undefined`    *)
(* that throw a TypeError, and reference identity of returned states.      *)
(***************************************************************************)
EXTENDS Integers, Sequences, FiniteSets, TLC

VARIABLES history, last

vars == <<history, last>>

(***************************************************************************)
(* Bounds of the model                                                     *)
(***************************************************************************)

\* Spec: committed actions are explored while past holds fewer entries.
MaxDepth == 2

\* SpecLong: undo is explored while future holds fewer entries.
MaxUndo == 2

\* SpecRules: committed actions are explored while past holds fewer entries.
MaxRulesDepth == 2

\* SpecDeal: committed draws are explored while past holds fewer entries.
MaxDealDepth == 2

\* SpecEndgame: a card is taken back from a foundation of a won game while
\* the move counter is below this (the deal is won in 52 moves).
MaxEndgameMoves == 54

\* SpecSession: moves are played while the move counter is below this, so
\* that past outgrows MAX_HISTORY_LENGTH.
MaxSessionMoves == 102

(***************************************************************************)
(* Cards (types.ts, card/deck.ts, card/color.ts, card/stacking.ts)         *)
(***************************************************************************)

SUITS == <<"hearts", "diamonds", "clubs", "spades">>

RANKS == <<1, 2, 3, 4, 5, 6, 7, 8, 9, 10, 11, 12, 13>>

SuitSet == {SUITS[i] : i \in 1..Len(SUITS)}

\* A foundation key that names no pile (foundations[key] is undefined).
NoSuit == "undefined"

createCard(suit, rank, faceUp) == [suit |-> suit, rank |-> rank, faceUp |-> faceUp]

flipCardUp(card) == IF card.faceUp THEN card ELSE createCard(card.suit, card.rank, TRUE)

getSuitColor(suit) == IF suit = "hearts" \/ suit = "diamonds" THEN "red" ELSE "black"

getCardColor(card) == getSuitColor(card.suit)

hasAlternatingColors(card1, card2) == getCardColor(card1) # getCardColor(card2)

canStackOnTableau_RankUp(cardToPlace, targetCard) ==
    /\ hasAlternatingColors(cardToPlace, targetCard)
    /\ cardToPlace.rank = targetCard.rank + 1

canStackOnTableau(cardToPlace, targetCard) ==
    /\ hasAlternatingColors(cardToPlace, targetCard)
    /\ cardToPlace.rank = targetCard.rank - 1

\* foundationTopCard is a sequence of at most one card: <<>> stands for undefined.
canStackOnFoundation_AnySuit(cardToPlace, foundationTopCard, foundationSuit) ==
    IF foundationTopCard = <<>> THEN cardToPlace.rank = 1
    ELSE cardToPlace.rank = foundationTopCard[1].rank + 1

canStackOnFoundation(cardToPlace, foundationTopCard, foundationSuit) ==
    IF cardToPlace.suit # foundationSuit THEN FALSE
    ELSE IF foundationTopCard = <<>> THEN cardToPlace.rank = 1
    ELSE cardToPlace.rank = foundationTopCard[1].rank + 1

isKing(card) == card.rank = 13

(***************************************************************************)
(* JavaScript array helpers                                                *)
(***************************************************************************)

Min(a, b) == IF a < b THEN a ELSE b

Max(a, b) == IF a > b THEN a ELSE b

\* Array.prototype.slice / splice: a relative index clamped into 0..len.
RelIndex(i, len) == IF i < 0 THEN Max(len + i, 0) ELSE Min(i, len)

\* arr.slice(start, end), 0-based, end exclusive.
Slice(arr, start, end) ==
    LET k == RelIndex(start, Len(arr))
        f == RelIndex(end, Len(arr))
    IN  IF f <= k THEN <<>> ELSE SubSeq(arr, k + 1, f)

\* arr.slice(start)
SliceFrom(arr, start) == Slice(arr, start, Len(arr))

\* what is left of arr after arr.splice(start)
SpliceFrom(arr, start) == SubSeq(arr, 1, RelIndex(start, Len(arr)))

Reverse(arr) == [i \in 1..Len(arr) |-> arr[Len(arr) + 1 - i]]


(***************************************************************************)
(* Results and error texts (types.ts, state/validation.ts)                 *)
(***************************************************************************)

success(value) == [kind |-> "success", value |-> value]

failure(error) == [kind |-> "failure", error |-> error]

\* An uncaught TypeError: reading a property of undefined.
Thrown == [kind |-> "throw"]

ErrNoCardsAtSource == "No cards at source location"

ErrOnlyKings == "Only Kings can be placed on empty tableau columns"

ErrOppositeColor == "Card must be opposite color and one rank lower"

ErrSingleCards == "Can only move single cards to foundation"

ErrSameSuit == "Card must be same suit and next rank up"

ErrToStock == "Cannot move cards to stock"

ErrToWaste == "Cannot move cards directly to waste"

ErrNoCardsToMove == "No cards to move"

(***************************************************************************)
(* Deal (card/deck.ts, state/deal.ts)                                       *)
(***************************************************************************)

createDeck ==
    [i \in 1..(Len(SUITS) * Len(RANKS)) |->
        createCard(SUITS[((i - 1) \div Len(RANKS)) + 1], RANKS[((i - 1) % Len(RANKS)) + 1], FALSE)]

(***************************************************************************)
(* Seeded shuffle (card/deck.ts).  The generator keeps its state in a       *)
(* JavaScript number, a 64-bit float: state * 1103515245 is rounded to 53   *)
(* significant bits when it needs more, the sum with 12345 is rounded       *)
(* again, and `& 0x7fffffff` keeps the low 31 bits of the rounded integer.  *)
(* Naturals that do not fit a machine integer are sequences of six base-    *)
(* 4096 digits, least significant first.                                    *)
(***************************************************************************)

LcgMultiplier == 1103515245
LcgIncrement == 12345
LcgMask == 2147483647

DigitBase == 2^12

\* Six digits from six column sums, carries propagated upwards.
Carried(c) ==
    LET d1 == c[1]
        d2 == c[2] + (d1 \div DigitBase)
        d3 == c[3] + (d2 \div DigitBase)
        d4 == c[4] + (d3 \div DigitBase)
        d5 == c[5] + (d4 \div DigitBase)
        d6 == c[6] + (d5 \div DigitBase)
    IN  <<d1 % DigitBase, d2 % DigitBase, d3 % DigitBase,
          d4 % DigitBase, d5 % DigitBase, d6>>

\* The three digits of a natural below 2^31.
Digits3(n) == <<n % DigitBase, (n \div DigitBase) % DigitBase, n \div (DigitBase * DigitBase)>>

\* The exact product of two naturals below 2^31.
Product(x, y) ==
    LET a == Digits3(x)
        b == Digits3(y)
    IN  Carried(<< a[1] * b[1],
                   a[1] * b[2] + a[2] * b[1],
                   a[1] * b[3] + a[2] * b[2] + a[3] * b[1],
                   a[2] * b[3] + a[3] * b[2],
                   a[3] * b[3],
                   0 >>)

AddSmall(d, n) == Carried([d EXCEPT ![1] = @ + n])

\* Number of significant bits.
DigitBits(x) == CHOOSE b \in 0..12 : x < 2^(b) /\ (b = 0 \/ x >= 2^(b - 1))

BitLength(d) ==
    IF \A k \in 1..6 : d[k] = 0 THEN 0
    ELSE LET h == CHOOSE k \in 1..6 : d[k] # 0 /\ \A m \in (k + 1)..6 : d[m] = 0
         IN  12 * (h - 1) + DigitBits(d[h])

\* The float nearest to an integer below 2^64: the bits below the 53 most
\* significant ones are rounded off, a tie going to the even neighbour.
RoundToDouble(d) ==
    LET drop == BitLength(d) - 53
    IN  IF drop <= 0 THEN d
        ELSE LET unit == 2^(drop)
                 low == d[1] % unit
                 odd == (d[1] \div unit) % 2 = 1
                 up == low * 2 > unit \/ (low * 2 = unit /\ odd)
             IN  Carried([d EXCEPT ![1] = @ - low + (IF up THEN unit ELSE 0)])

\* value & 0x7fffffff for a non-negative integer value.
Low31(d) == d[1] + d[2] * DigitBase + (d[3] % 128) * DigitBase * DigitBase

\* One call of the function createSeededRandom returns: the new rng.state.
\* The number handed out is that state divided by 0x7fffffff.
\* The same with every product and sum exact, as integers mod 2^31.
createSeededRandom_Exact(state) ==
    IF state >= 0
    THEN Low31(AddSmall(Product(state, LcgMultiplier), LcgIncrement))
    ELSE LET low == Low31(AddSmall(Product(-state, LcgMultiplier), -LcgIncrement))
         IN  IF low = 0 THEN 0 ELSE (LcgMask - low) + 1

\* A negative state (only a negative seed gives one) makes the sum negative,
\* the product outweighing 12345; `&` then sees its two's complement.
createSeededRandom(state) ==
    IF state >= 0
    THEN Low31(RoundToDouble(AddSmall(RoundToDouble(Product(state, LcgMultiplier)), LcgIncrement)))
    ELSE LET product == RoundToDouble(Product(-state, LcgMultiplier))
             low == Low31(RoundToDouble(AddSmall(product, -LcgIncrement)))
         IN  IF low = 0 THEN 0 ELSE (LcgMask - low) + 1

\* Math.floor(random() * n) for random() = state / 0x7fffffff and n <= 52.
\* 0x7fffffff is prime, so state * n / 0x7fffffff is an integer only for
\* state = 0 or state = 0x7fffffff, and otherwise lies further from every
\* integer than the floats' rounding can move it: the floor is the exact one.
FloorScaled(state, n) ==
    LET x == Carried(<<Digits3(state)[1] * n, Digits3(state)[2] * n, Digits3(state)[3] * n, 0, 0, 0>>)
        hi == (x[3] \div 128) + x[4] * 32
        lo == Low31(x)
    IN  hi + (IF lo >= LcgMask - hi THEN 1 ELSE 0)

\* What an array slot holds that was never assigned, or was assigned the
\* value read from such a slot.
Undefined == [suit |-> "undefined", rank |-> 0, faceUp |-> FALSE]

\* [cards[i], cards[j]] = [cards[j], cards[i]] for 0-based i, j.  Reading
\* past the end gives undefined; writing there lengthens the array.
swapAt(cards, i, j) ==
    IF j < Len(cards)
    THEN [cards EXCEPT ![i + 1] = cards[j + 1], ![j + 1] = cards[i + 1]]
    ELSE [k \in 1..(j + 1) |->
            IF k = j + 1 THEN cards[i + 1]
            ELSE IF k = i + 1 \/ k > Len(cards) THEN Undefined
            ELSE cards[k]]

\* The loop of shuffleDeck from index i downwards, the generator in `state`.
RECURSIVE shuffleFrom(_, _, _)
shuffleFrom(cards, state, i) ==
    IF i < 1 \/ Len(cards) = 0 THEN cards
    ELSE LET next == createSeededRandom(state)
             j == FloorScaled(next, i + 1)
         IN  shuffleFrom(swapAt(cards, i, j), next, i - 1)

\* shuffleDeck(deck, seed) with a seed.  Without one the swaps follow
\* Math.random(): see ShuffledDecks.
shuffleDeck(deck, seed) == shuffleFrom(deck, seed, Len(deck) - 1)

\* The value Date.now() gave when the game was dealt.
StartTime == 0

createEmptyFoundations == [s \in SuitSet |-> <<>>]

createInitialStats == [moves |-> 0, score |-> 0, startTime |-> StartTime, elapsedSeconds |-> 0]

\* First index (0-based) of column col in the shuffled deck: 0, 1, 3, 6, ...
DeckIdx(col) == (col * (col + 1)) \div 2

\* A deal that turns the stock over, the last shuffled card first.
dealShuffled_StockReversed(shuffled) ==
    [ tableau |-> [c \in 1..7 |->
          [row \in 1..c |->
              LET card == shuffled[DeckIdx(c - 1) + row]
              IN  IF row = c THEN flipCardUp(card) ELSE card]],
      foundations |-> createEmptyFoundations,
      stock |-> Reverse(SliceFrom(shuffled, DeckIdx(7))),
      waste |-> <<>>,
      stats |-> createInitialStats,
      isWon |-> FALSE ]

\* dealGame once the deck is shuffled: column col (0-based) takes col+1 cards,
\* the last of them face up; the other 24 cards are the stock.
dealShuffled(shuffled) ==
    [ tableau |-> [c \in 1..7 |->
          [row \in 1..c |->
              LET card == shuffled[DeckIdx(c - 1) + row]
              IN  IF row = c THEN flipCardUp(card) ELSE card]],
      foundations |-> createEmptyFoundations,
      stock |-> SliceFrom(shuffled, DeckIdx(7)),
      waste |-> <<>>,
      stats |-> createInitialStats,
      isWon |-> FALSE ]

(***************************************************************************)
(* Accessors (state/accessors)                                             *)
(***************************************************************************)

\* getTopCard: <<>> stands for undefined, <<card>> for a card.
getTopCard(pile) == IF Len(pile) > 0 THEN <<pile[Len(pile)]>> ELSE <<>>

IsColumn(i) == i \in 0..6

\* getCardsForMove.  The result is [kind, value]: "throw" when a property of
\* undefined is read (no such column, no such foundation pile).
getCardsForMove(state, from) ==
    CASE from.type = "tableau" ->
            IF ~IsColumn(from.columnIndex) THEN Thrown
            ELSE LET column == state.tableau[from.columnIndex + 1]
                 IN  IF from.cardIndex >= Len(column) THEN success(<<>>)
                     ELSE success(SliceFrom(column, from.cardIndex))
      [] from.type = "waste" -> success(getTopCard(state.waste))
      [] from.type = "foundation" ->
            IF from.suit \notin SuitSet THEN Thrown
            ELSE success(getTopCard(state.foundations[from.suit]))
      [] from.type = "stock" -> success(<<>>)

(***************************************************************************)
(* Validation (state/validation.ts)                                        *)
(***************************************************************************)

validateTableau(state, move, cardToMove) ==
    IF ~IsColumn(move.to.columnIndex) THEN Thrown
    ELSE LET targetColumn == state.tableau[move.to.columnIndex + 1]
             targetCard == getTopCard(targetColumn)
         IN  IF targetCard = <<>>
             THEN IF isKing(cardToMove) THEN success(TRUE) ELSE failure(ErrOnlyKings)
             ELSE IF canStackOnTableau(cardToMove, targetCard[1])
                  THEN success(TRUE) ELSE failure(ErrOppositeColor)

validateFoundation(state, move, cardToMove) ==
    IF move.cardCount > 1 THEN failure(ErrSingleCards)
    ELSE IF move.to.suit \notin SuitSet THEN Thrown
    ELSE LET foundationPile == state.foundations[move.to.suit]
             topCard == getTopCard(foundationPile)
         IN  IF canStackOnFoundation(cardToMove, topCard, move.to.suit)
             THEN success(TRUE) ELSE failure(ErrSameSuit)

\* Variant of validateMove: the waste is accepted as a destination.
validateMove_ToWaste(state, move) ==
    LET sourceCards == getCardsForMove(state, move.from)
    IN  IF sourceCards.kind = "throw" THEN Thrown
        ELSE IF Len(sourceCards.value) = 0 THEN failure(ErrNoCardsAtSource)
        ELSE CASE move.to.type = "tableau" -> validateTableau(state, move, sourceCards.value[1])
               [] move.to.type = "foundation" -> validateFoundation(state, move, sourceCards.value[1])
               [] move.to.type = "stock" -> failure(ErrToStock)
               [] move.to.type = "waste" -> success(TRUE)

validateMove(state, move) ==
    LET sourceCards == getCardsForMove(state, move.from)
    IN  IF sourceCards.kind = "throw" THEN Thrown
        ELSE IF Len(sourceCards.value) = 0 THEN failure(ErrNoCardsAtSource)
        ELSE LET cardToMove == sourceCards.value[1]
             IN  CASE move.to.type = "tableau" -> validateTableau(state, move, cardToMove)
                   [] move.to.type = "foundation" -> validateFoundation(state, move, cardToMove)
                   [] move.to.type = "stock" -> failure(ErrToStock)
                   [] move.to.type = "waste" -> failure(ErrToWaste)

(***************************************************************************)
(* Win check and move application (state/win, state/moves)                 *)
(***************************************************************************)

checkWinCondition(state) ==
    /\ Len(state.foundations["hearts"]) = 13
    /\ Len(state.foundations["diamonds"]) = 13
    /\ Len(state.foundations["clubs"]) = 13
    /\ Len(state.foundations["spades"]) = 13

canAutoComplete(state) ==
    IF Len(state.stock) > 0 \/ Len(state.waste) > 0 THEN FALSE
    ELSE \A c \in 1..7 : \A i \in 1..Len(state.tableau[c]) : state.tableau[c][i].faceUp

\* Variant of removeCardsFromSource: the card uncovered in a column is not
\* turned face-up.
removeCardsFromSource_NoFlip(state, move) ==
    CASE move.from.type = "tableau" ->
            [state EXCEPT !.tableau[move.from.columnIndex + 1] =
                              SpliceFrom(state.tableau[move.from.columnIndex + 1],
                                         move.from.cardIndex)]
      [] move.from.type = "waste" ->
            [state EXCEPT !.waste = Slice(state.waste, 0, -1)]
      [] move.from.type = "foundation" ->
            [state EXCEPT !.foundations[move.from.suit] =
                              Slice(state.foundations[move.from.suit], 0, -1)]
      [] move.from.type = "stock" -> state

removeCardsFromSource(state, move) ==
    CASE move.from.type = "tableau" ->
            LET spliced == SpliceFrom(state.tableau[move.from.columnIndex + 1], move.from.cardIndex)
                n == Len(spliced)
                column == IF n > 0 /\ ~spliced[n].faceUp
                          THEN [spliced EXCEPT ![n] = flipCardUp(spliced[n])]
                          ELSE spliced
            IN  [state EXCEPT !.tableau[move.from.columnIndex + 1] = column]
      [] move.from.type = "waste" ->
            [state EXCEPT !.waste = Slice(state.waste, 0, -1)]
      [] move.from.type = "foundation" ->
            [state EXCEPT !.foundations[move.from.suit] =
                              Slice(state.foundations[move.from.suit], 0, -1)]
      [] move.from.type = "stock" -> state

\* Variant of addCardsToDestination: the run is put down card by card, so
\* that it arrives in reversed order.
addCardsToDestination_Reversed(state, destination, cards) ==
    CASE destination.type = "tableau" ->
            [state EXCEPT !.tableau[destination.columnIndex + 1] =
                              state.tableau[destination.columnIndex + 1] \o Reverse(cards)]
      [] destination.type = "foundation" ->
            [state EXCEPT !.foundations[destination.suit] =
                              state.foundations[destination.suit] \o Reverse(cards)]
      [] destination.type = "stock" -> state
      [] destination.type = "waste" -> state

addCardsToDestination(state, destination, cards) ==
    CASE destination.type = "tableau" ->
            [state EXCEPT !.tableau[destination.columnIndex + 1] =
                              state.tableau[destination.columnIndex + 1] \o cards]
      [] destination.type = "foundation" ->
            [state EXCEPT !.foundations[destination.suit] =
                              state.foundations[destination.suit] \o cards]
      [] destination.type = "stock" -> state
      [] destination.type = "waste" -> state

\* Variant of applyMove: the move counter counts the cards moved.
applyMove_CountsCards(state, move) ==
    LET validation == validateMove(state, move)
    IN  IF validation.kind = "throw" THEN Thrown
        ELSE IF validation.kind # "success" THEN failure(validation.error)
        ELSE LET cardsToMove == getCardsForMove(state, move.from).value
                 stateAfterAdd == addCardsToDestination(removeCardsFromSource(state, move),
                                                        move.to, cardsToMove)
                 newStats == [stateAfterAdd.stats EXCEPT
                                  !.moves = stateAfterAdd.stats.moves + Len(cardsToMove)]
             IN  success([stateAfterAdd EXCEPT !.stats = newStats,
                                               !.isWon = checkWinCondition(stateAfterAdd)])

\* Variant of applyMove: the win flag is carried over, not computed anew.
applyMove_KeepsWinFlag(state, move) ==
    LET validation == validateMove(state, move)
    IN  IF validation.kind = "throw" THEN Thrown
        ELSE IF validation.kind # "success" THEN failure(validation.error)
        ELSE LET cardsToMove == getCardsForMove(state, move.from).value
             IN  IF Len(cardsToMove) = 0 THEN failure(ErrNoCardsToMove)
                 ELSE LET stateAfterAdd == addCardsToDestination(removeCardsFromSource(state, move),
                                                                 move.to, cardsToMove)
                          newStats == [stateAfterAdd.stats EXCEPT !.moves = stateAfterAdd.stats.moves + 1]
                      IN  success([stateAfterAdd EXCEPT !.stats = newStats])

applyMove(state, move) ==
    LET validation == validateMove(state, move)
    IN  IF validation.kind = "throw" THEN Thrown
        ELSE IF validation.kind # "success" THEN failure(validation.error)
        ELSE LET cardsToMove == getCardsForMove(state, move.from).value
             IN  IF Len(cardsToMove) = 0 THEN failure(ErrNoCardsToMove)
                 ELSE LET stateAfterRemoval == removeCardsFromSource(state, move)
                          stateAfterAdd == addCardsToDestination(stateAfterRemoval, move.to, cardsToMove)
                          newStats == [stateAfterAdd.stats EXCEPT !.moves = stateAfterAdd.stats.moves + 1]
                          isWon == checkWinCondition(stateAfterAdd)
                      IN  success([stateAfterAdd EXCEPT !.stats = newStats, !.isWon = isWon])

(***************************************************************************)
(* Smart moves (state/smart-moves.ts)                                      *)
(***************************************************************************)

\* getCardAtLocation: <<>> stands for undefined, <<card>> for a card; "throw"
\* when a property of undefined is read.
getCardAtLocation(state, location) ==
    CASE location.type = "tableau" ->
            IF ~IsColumn(location.columnIndex) THEN Thrown
            ELSE LET column == state.tableau[location.columnIndex + 1]
                 IN  IF location.cardIndex \in 0..(Len(column) - 1)
                     THEN success(<<column[location.cardIndex + 1]>>)
                     ELSE success(<<>>)
      [] location.type = "foundation" ->
            IF location.suit \notin SuitSet THEN Thrown
            ELSE success(getTopCard(state.foundations[location.suit]))
      [] location.type = "waste" -> success(getTopCard(state.waste))
      [] location.type = "stock" -> success(getTopCard(state.stock))

\* The destination findBestMove builds for foundation i: an object with
\* type and pileIndex.  Its suit property reads as undefined.
FoundationSlot(i) == [type |-> "foundation", pileIndex |-> i, suit |-> NoSuit]

NoMove == [kind |-> "null"]

\* The loops of findBestMove from index i on: "move" with the first move
\* validateMove accepts, "null" when the loop ends, "throw" when validateMove
\* throws.
RECURSIVE tryTableauColumns(_, _, _, _)
tryTableauColumns(state, from, cardCount, i) ==
    IF i >= 7 THEN NoMove
    ELSE IF from.type = "tableau" /\ from.columnIndex = i
         THEN tryTableauColumns(state, from, cardCount, i + 1)
    ELSE LET move == [from |-> from,
                      to |-> [type |-> "tableau", columnIndex |-> i, cardIndex |-> 0],
                      cardCount |-> cardCount]
             validation == validateMove(state, move)
         IN  IF validation.kind = "throw" THEN Thrown
             ELSE IF validation.kind = "success" THEN [kind |-> "move", value |-> move]
             ELSE tryTableauColumns(state, from, cardCount, i + 1)

RECURSIVE tryFoundations(_, _, _)
tryFoundations(state, from, i) ==
    IF i >= 4 THEN NoMove
    ELSE LET move == [from |-> from, to |-> FoundationSlot(i), cardCount |-> 1]
             validation == validateMove(state, move)
         IN  IF validation.kind = "throw" THEN Thrown
             ELSE IF validation.kind = "success" THEN [kind |-> "move", value |-> move]
             ELSE tryFoundations(state, from, i + 1)

findBestMove(state, from) ==
    LET card == getCardAtLocation(state, from)
    IN  IF card.kind = "throw" THEN Thrown
        ELSE IF card.value = <<>> THEN NoMove
        ELSE LET cardCount == IF from.type = "tableau"
                              THEN Len(state.tableau[from.columnIndex + 1]) - from.cardIndex
                              ELSE 1
                 onFoundation == IF cardCount = 1 THEN tryFoundations(state, from, 0) ELSE NoMove
             IN  IF onFoundation.kind # "null" THEN onFoundation
                 ELSE tryTableauColumns(state, from, cardCount, 0)

(***************************************************************************)
(* Stock and waste (state/stock.ts)                                        *)
(***************************************************************************)

\* Variant of drawFromStock: the drawn cards stay in the stock.
drawFromStock_KeepStock(state, count) ==
    IF Len(state.stock) = 0
    THEN IF Len(state.waste) = 0 THEN [state |-> state, same |-> TRUE]
         ELSE [state |-> [state EXCEPT !.stock = Reverse(state.waste), !.waste = <<>>],
               same |-> FALSE]
    ELSE LET drawCount == Min(count, Len(state.stock))
             taken == SliceFrom(state.stock, -drawCount)
             drawnCards == Reverse([i \in 1..Len(taken) |-> flipCardUp(taken[i])])
         IN  [state |-> [state EXCEPT !.waste = state.waste \o drawnCards], same |-> FALSE]

\* Variant of drawFromStock: a draw or a recycle counts as a move.
drawFromStock_CountsMove(state, count) ==
    IF Len(state.stock) = 0
    THEN IF Len(state.waste) = 0 THEN [state |-> state, same |-> TRUE]
         ELSE [state |-> [state EXCEPT
                              !.stock = Reverse([i \in 1..Len(state.waste) |->
                                                    [state.waste[i] EXCEPT !.faceUp = FALSE]]),
                              !.waste = <<>>,
                              !.stats.moves = state.stats.moves + 1],
               same |-> FALSE]
    ELSE LET drawCount == Min(count, Len(state.stock))
             taken == SliceFrom(state.stock, -drawCount)
         IN  [state |-> [state EXCEPT
                             !.stock = Slice(state.stock, 0, -drawCount),
                             !.waste = state.waste
                                         \o Reverse([i \in 1..Len(taken) |-> flipCardUp(taken[i])]),
                             !.stats.moves = state.stats.moves + 1],
              same |-> FALSE]

\* Variant of drawFromStock: a recycle keeps the order of the waste.
drawFromStock_RecycleInOrder(state, count) ==
    IF Len(state.stock) = 0
    THEN IF Len(state.waste) = 0 THEN [state |-> state, same |-> TRUE]
         ELSE [state |-> [state EXCEPT
                              !.stock = [i \in 1..Len(state.waste) |->
                                            [state.waste[i] EXCEPT !.faceUp = FALSE]],
                              !.waste = <<>>],
               same |-> FALSE]
    ELSE LET drawCount == Min(count, Len(state.stock))
             taken == SliceFrom(state.stock, -drawCount)
         IN  [state |-> [state EXCEPT
                             !.stock = Slice(state.stock, 0, -drawCount),
                             !.waste = state.waste
                                         \o Reverse([i \in 1..Len(taken) |-> flipCardUp(taken[i])])],
              same |-> FALSE]

\* Variant of drawFromStock: the cards drawn reach the waste in the order
\* they had in the stock.
drawFromStock_DrawInOrder(state, count) ==
    IF Len(state.stock) = 0
    THEN IF Len(state.waste) = 0 THEN [state |-> state, same |-> TRUE]
         ELSE [state |-> [state EXCEPT
                              !.stock = Reverse([i \in 1..Len(state.waste) |->
                                            [state.waste[i] EXCEPT !.faceUp = FALSE]]),
                              !.waste = <<>>],
               same |-> FALSE]
    ELSE LET drawCount == Min(count, Len(state.stock))
             taken == SliceFrom(state.stock, -drawCount)
         IN  [state |-> [state EXCEPT
                             !.stock = Slice(state.stock, 0, -drawCount),
                             !.waste = state.waste
                                         \o [i \in 1..Len(taken) |-> flipCardUp(taken[i])]],
              same |-> FALSE]

\* Variant of drawFromStock: the recycled waste keeps its cards face-up.
drawFromStock_RecycleFaceUp(state, count) ==
    IF Len(state.stock) = 0
    THEN IF Len(state.waste) = 0 THEN [state |-> state, same |-> TRUE]
         ELSE [state |-> [state EXCEPT !.stock = Reverse(state.waste), !.waste = <<>>],
               same |-> FALSE]
    ELSE LET drawCount == Min(count, Len(state.stock))
             taken == SliceFrom(state.stock, -drawCount)
         IN  [state |-> [state EXCEPT
                             !.stock = Slice(state.stock, 0, -drawCount),
                             !.waste = state.waste
                                         \o Reverse([i \in 1..Len(taken) |-> flipCardUp(taken[i])])],
              same |-> FALSE]

\* drawFromStock returns its argument itself (same reference) only when stock
\* and waste are both empty; `same` carries that identity.
drawFromStock(state, count) ==
    IF Len(state.stock) = 0
    THEN IF Len(state.waste) = 0 THEN [state |-> state, same |-> TRUE]
         ELSE LET newStock == Reverse([i \in 1..Len(state.waste) |->
                                  IF state.waste[i].faceUp
                                  THEN [state.waste[i] EXCEPT !.faceUp = FALSE]
                                  ELSE state.waste[i]])
              IN  [state |-> [state EXCEPT !.stock = newStock, !.waste = <<>>], same |-> FALSE]
    ELSE LET drawCount == Min(count, Len(state.stock))
             taken == SliceFrom(state.stock, -drawCount)
             drawnCards == Reverse([i \in 1..Len(taken) |-> flipCardUp(taken[i])])
             newStock == Slice(state.stock, 0, -drawCount)
             newWaste == state.waste \o drawnCards
         IN  [state |-> [state EXCEPT !.stock = newStock, !.waste = newWaste], same |-> FALSE]

(***************************************************************************)
(* Auto-complete (store/auto-complete.ts)                                  *)
(***************************************************************************)

RECURSIVE findMove_HighestFirst(_, _)
\* Variant of findMove: the columns are tried from the last one down.
findMove_HighestFirst(state, colIndex) ==
    IF colIndex >= 7 THEN <<>>
    ELSE LET column == state.tableau[7 - colIndex]
         IN  IF Len(column) = 0 THEN findMove_HighestFirst(state, colIndex + 1)
             ELSE LET topCard == column[Len(column)]
                      move == [from |-> [type |-> "tableau", columnIndex |-> 6 - colIndex,
                                         cardIndex |-> Len(column) - 1],
                               to |-> [type |-> "foundation", suit |-> topCard.suit],
                               cardCount |-> 1]
                      result == applyMove(state, move)
                  IN  IF result.kind = "success" THEN <<result.value>>
                      ELSE findMove_HighestFirst(state, colIndex + 1)

RECURSIVE findMove(_, _)
\* The state after the first accepted top-card-to-foundation move, looking
\* at columns colIndex..6 in order; <<>> stands for null.
findMove(state, colIndex) ==
    IF colIndex >= 7 THEN <<>>
    ELSE LET column == state.tableau[colIndex + 1]
         IN  IF Len(column) = 0 THEN findMove(state, colIndex + 1)
             ELSE LET topCard == column[Len(column)]
                      move == [from |-> [type |-> "tableau", columnIndex |-> colIndex,
                                         cardIndex |-> Len(column) - 1],
                               to |-> [type |-> "foundation", suit |-> topCard.suit],
                               cardCount |-> 1]
                      result == applyMove(state, move)
                  IN  IF result.kind = "success" THEN <<result.value>>
                      ELSE findMove(state, colIndex + 1)

RECURSIVE tryAutoMove(_)
tryAutoMove(state) ==
    IF checkWinCondition(state) THEN [state |-> state, same |-> TRUE]
    ELSE LET newState == findMove(state, 0)
         IN  IF newState # <<>>
             THEN [state |-> tryAutoMove(newState[1]).state, same |-> FALSE]
             ELSE [state |-> state, same |-> TRUE]

\* performAutoComplete returns its argument itself (same reference) when it
\* applied no move.
performAutoComplete(currentState) == tryAutoMove(currentState)

(***************************************************************************)
(* History (store/history)                                                 *)
(***************************************************************************)

MAX_HISTORY_LENGTH == 100

\* Variant of pushToHistory: the redo states survive the push.
pushToHistory_KeepFuture(h, newState) ==
    [past |-> SliceFrom(Append(h.past, h.present), -MAX_HISTORY_LENGTH),
     present |-> newState, future |-> h.future]

\* Variant of pushToHistory: past is never trimmed.
pushToHistory_NoTrim(h, newState) ==
    [past |-> Append(h.past, h.present), present |-> newState, future |-> <<>>]

\* Variant of pushToHistory: the trim keeps the oldest states.
pushToHistory_KeepOldest(h, newState) ==
    [past |-> Slice(Append(h.past, h.present), 0, MAX_HISTORY_LENGTH),
     present |-> newState, future |-> <<>>]

\* Variant of pushToHistory: the trim sets in one state early.
pushToHistory_TrimEarly(h, newState) ==
    LET newPast == Append(h.past, h.present)
        trimmedPast == IF Len(newPast) >= MAX_HISTORY_LENGTH
                       THEN SliceFrom(newPast, -(MAX_HISTORY_LENGTH - 1))
                       ELSE newPast
    IN  [past |-> trimmedPast, present |-> newState, future |-> <<>>]

pushToHistory(h, newState) ==
    LET newPast == Append(h.past, h.present)
        trimmedPast == IF Len(newPast) > MAX_HISTORY_LENGTH
                       THEN SliceFrom(newPast, -MAX_HISTORY_LENGTH)
                       ELSE newPast
    IN  [past |-> trimmedPast, present |-> newState, future |-> <<>>]

\* Variant of undoHistory: the states already undone are forgotten.
undoHistory_DropFuture(h) ==
    IF Len(h.past) = 0 THEN <<>>
    ELSE << [past |-> Slice(h.past, 0, -1), present |-> h.past[Len(h.past)],
             future |-> <<h.present>>] >>

\* Variant of undoHistory: the state left behind goes to the end of future.
undoHistory_FutureAtEnd(h) ==
    IF Len(h.past) = 0 THEN <<>>
    ELSE << [past |-> Slice(h.past, 0, -1), present |-> h.past[Len(h.past)],
             future |-> h.future \o <<h.present>>] >>

\* undoHistory / redoHistory: <<>> stands for null, <<h>> for a history.
undoHistory(h) ==
    IF Len(h.past) = 0 THEN <<>>
    ELSE LET newPast == Slice(h.past, 0, -1)
             previousState == h.past[Len(h.past)]
         IN  << [past |-> newPast, present |-> previousState,
                 future |-> <<h.present>> \o h.future] >>

\* Variant of redoHistory: the state left behind is not put on past.
redoHistory_DropPresent(h) ==
    IF Len(h.future) = 0 THEN <<>>
    ELSE << [past |-> h.past, present |-> h.future[1], future |-> SliceFrom(h.future, 1)] >>

redoHistory(h) ==
    IF Len(h.future) = 0 THEN <<>>
    ELSE LET nextState == h.future[1]
             newFuture == SliceFrom(h.future, 1)
         IN  << [past |-> Append(h.past, h.present), present |-> nextState,
                 future |-> newFuture] >>

\* Pairs <<suit, rank>> to face-down cards.
AsDeck(pairs) == [i \in 1..Len(pairs) |-> createCard(pairs[i][1], pairs[i][2], FALSE)]

\* Orders that shuffleDeck(createDeck()) can return when no seed is given
\* (Fisher-Yates driven by Math.random reaches every permutation).
ShuffledDecks ==
    { AsDeck(<<
        <<"spades", 1>>,
        <<"clubs", 1>>, <<"clubs", 9>>,
        <<"hearts", 13>>, <<"spades", 11>>, <<"hearts", 6>>,
        <<"clubs", 13>>, <<"spades", 13>>, <<"hearts", 11>>, <<"spades", 7>>,
        <<"hearts", 12>>, <<"diamonds", 12>>, <<"spades", 12>>, <<"clubs", 11>>, <<"diamonds", 13>>,
        <<"hearts", 10>>, <<"clubs", 10>>, <<"hearts", 9>>, <<"diamonds", 9>>, <<"diamonds", 11>>, <<"diamonds", 4>>,
        <<"spades", 9>>, <<"hearts", 8>>, <<"clubs", 8>>, <<"spades", 8>>, <<"hearts", 7>>, <<"spades", 10>>, <<"spades", 2>>,
        <<"diamonds", 7>>, <<"clubs", 7>>, <<"diamonds", 6>>, <<"clubs", 6>>, <<"spades", 6>>, <<"hearts", 5>>,
        <<"diamonds", 5>>, <<"clubs", 5>>, <<"spades", 5>>, <<"hearts", 4>>, <<"clubs", 4>>, <<"spades", 4>>,
        <<"hearts", 3>>, <<"diamonds", 3>>, <<"clubs", 3>>, <<"spades", 3>>, <<"hearts", 2>>, <<"diamonds", 2>>,
        <<"clubs", 2>>, <<"hearts", 1>>, <<"diamonds", 1>>, <<"clubs", 12>>, <<"diamonds", 10>>, <<"diamonds", 8>>
      >>) }

createInitialHistory(shuffled) ==
    [past |-> <<>>, present |-> dealShuffled(shuffled), future |-> <<>>]

\* Seeds handed to newGame, and values Date.now() gives when it deals.
Seeds == {0, 1, 40, 42, 12345, 99999, 230538014, 2147483647, -7, -1916945634}

StartTimes == {StartTime, StartTime + 1}

\* shuffleDeck(createDeck(), seed) for each of the seeds.
SeededDecks == [seed \in Seeds |-> shuffleDeck(createDeck, seed)]

\* A deal whose shuffle depends on the clock as well.
dealGame_ClockShuffled(seed, now) ==
    [dealShuffled(IF now = StartTime THEN SeededDecks[seed] ELSE Reverse(SeededDecks[seed]))
        EXCEPT !.stats.startTime = now]

\* dealGame(seed) called when the clock shows `now`.
dealGame(seed, now) ==
    [dealShuffled(SeededDecks[seed]) EXCEPT !.stats.startTime = now]

\* createInitialHistory(seed)
createSeededHistory(seed, now) ==
    [past |-> <<>>, present |-> dealGame(seed, now), future |-> <<>>]

(***************************************************************************)
(* Inputs of the store actions                                             *)
(***************************************************************************)

\* Column indexes offered to moveCard: the seven columns and one past them.
ColumnIndexes == 0..7

\* Card indexes offered for a column of n cards: the last two cards, the
\* index one past the end, and -1 (which slice and splice count from the end).
CardIndexes(n) == {-1} \cup {i \in (n - 2)..n : i >= 0}

FoundationKeys == SuitSet \cup {NoSuit}

FromLocations(state) ==
    UNION { {[type |-> "tableau", columnIndex |-> c, cardIndex |-> i] :
                i \in (IF IsColumn(c) THEN CardIndexes(Len(state.tableau[c + 1])) ELSE {0})} :
            c \in ColumnIndexes }
    \cup {[type |-> "foundation", suit |-> k] : k \in FoundationKeys}
    \cup {[type |-> "stock"], [type |-> "waste"]}

ToLocations ==
    {[type |-> "tableau", columnIndex |-> c, cardIndex |-> 0] : c \in ColumnIndexes}
    \cup {[type |-> "foundation", suit |-> k] : k \in FoundationKeys}
    \cup {[type |-> "stock"], [type |-> "waste"]}

CardCounts == {1, 2}

Moves(state) == [from : FromLocations(state), to : ToLocations, cardCount : CardCounts]

\* What applyMove reports for a move, without the new state.
Report(result) ==
    IF result.kind = "failure" THEN <<"failure", result.error>> ELSE <<result.kind>>

\* The moves handed to moveCard in a state: every move of Moves(state) that
\* applyMove accepts and, for each distinct rejection among Moves(state) (an
\* error text or a thrown TypeError), one move that is rejected that way.
MoveInputs(state) ==
    LET all == Moves(state)
        rejections == {Report(applyMove(state, m)) : m \in all} \ {<<"success">>}
    IN  {m \in all : applyMove(state, m).kind = "success"}
        \cup {CHOOSE m \in all : Report(applyMove(state, m)) = r : r \in rejections}

\* Counts handed to drawFromStock directly: none, one, a few, and more cards
\* than a stock holds.
NonNegativeCounts == {0, 1, 2, 3, 30}

DrawCounts == {1, 3}

(***************************************************************************)
(* Store handlers (store/game-store): each returns the store's history     *)
(* after the call; a handler that does not call set() returns h itself.    *)
(***************************************************************************)

\* Variant of moveCard: a rejected move is committed too.
moveCard_PushOnError(h, move) ==
    LET result == applyMove(h.present, move)
    IN  IF result.kind = "success" THEN pushToHistory(h, result.value)
        ELSE pushToHistory(h, h.present)

moveCard(h, move) ==
    LET result == applyMove(h.present, move)
    IN  IF result.kind = "success" THEN pushToHistory(h, result.value) ELSE h

\* Variant of drawCard: whatever drawFromStock returns is committed.
drawCard_AlwaysPush(h, count) == pushToHistory(h, drawFromStock(h.present, count).state)

drawCard(h, count) ==
    LET newState == drawFromStock(h.present, count)
    IN  IF ~newState.same THEN pushToHistory(h, newState.state) ELSE h

undo(h) ==
    LET newHistory == undoHistory(h)
    IN  IF newHistory # <<>> THEN newHistory[1] ELSE h

redo(h) ==
    LET newHistory == redoHistory(h)
    IN  IF newHistory # <<>> THEN newHistory[1] ELSE h

RECURSIVE commitSteps(_)
\* Every card auto-complete moves is committed as a state of its own.
commitSteps(h) ==
    IF checkWinCondition(h.present) THEN h
    ELSE LET newState == findMove(h.present, 0)
         IN  IF newState # <<>> THEN commitSteps(pushToHistory(h, newState[1])) ELSE h

\* Variant of autoComplete: the moves are committed one by one.
autoComplete_StepByStep(h) ==
    IF ~canAutoComplete(h.present) THEN h ELSE commitSteps(h)

\* Variant of autoComplete: what performAutoComplete returns is committed
\* even when it is the state it was given.
autoComplete_AlwaysPush(h) ==
    IF ~canAutoComplete(h.present) THEN h
    ELSE pushToHistory(h, performAutoComplete(h.present).state)

\* Variant of autoComplete: canAutoComplete is not asked.
autoComplete_Ungated(h) ==
    LET finalState == performAutoComplete(h.present)
    IN  IF ~finalState.same THEN pushToHistory(h, finalState.state) ELSE h

autoComplete(h) ==
    LET currentState == h.present
    IN  IF ~canAutoComplete(currentState) THEN h
        ELSE LET finalState == performAutoComplete(currentState)
             IN  IF ~finalState.same THEN pushToHistory(h, finalState.state) ELSE h

(***************************************************************************)
(* State machine.  `last` records the last store action that replaced the  *)
(* history or was handed a move it did not apply, what the game or history *)
(* function it called reported, and how many states past and future held   *)
(* when it was called.  A draw that finds stock and waste empty is         *)
(* recorded too.  Another call that finds nothing to do (undo with no      *)
(* past, redo with no future, an auto-complete that is gated or moves      *)
(* nothing) leaves store and `last` as they are.                           *)
(***************************************************************************)

Did(op, result, h) ==
    [op |-> op, result |-> result, pastBefore |-> Len(h.past), futureBefore |-> Len(h.future)]

Init ==
    /\ \E shuffled \in ShuffledDecks : history = createInitialHistory(shuffled)
    /\ last = [op |-> "init", result |-> "dealt", pastBefore |-> 0, futureBefore |-> 0]

NewGame ==
    /\ \E shuffled \in ShuffledDecks : history' = createInitialHistory(shuffled)
    /\ last' = Did("newGame", "dealt", history)

\* A committing call is explored while past holds fewer than `bound` states.
MoveCard(bound) ==
    \E move \in MoveInputs(history.present) :
        LET result == applyMove(history.present, move)
        IN  /\ result.kind = "success" => Len(history.past) < bound
            /\ history' = moveCard(history, move)
            /\ last' = Did("moveCard", result.kind, history)

DrawCard(counts, bound) ==
    \E count \in counts :
        LET newState == drawFromStock(history.present, count)
        IN  /\ ~newState.same => Len(history.past) < bound
            /\ history' = drawCard(history, count)
            /\ last' = Did("drawCard", IF newState.same THEN "same" ELSE "new", history)

\* An undo that has a state to go back to is explored while future holds
\* fewer than `bound` states.
Undo(bound) ==
    /\ undoHistory(history) # <<>> => Len(history.future) < bound
    /\ history' = undo(history)
    /\ last' = IF undoHistory(history) = <<>> THEN last ELSE Did("undo", "history", history)

Redo ==
    /\ history' = redo(history)
    /\ last' = IF redoHistory(history) = <<>> THEN last ELSE Did("redo", "history", history)

AutoComplete(bound) ==
    LET gate == canAutoComplete(history.present)
        same == performAutoComplete(history.present).same
    IN  /\ (gate /\ ~same) => Len(history.past) < bound
        /\ history' = autoComplete(history)
        /\ last' = IF gate /\ ~same THEN Did("autoComplete", "new", history) ELSE last

\* The store played from a deal: every action, a few committed steps deep.
Next ==
    \/ NewGame
    \/ MoveCard(MaxDepth)
    \/ DrawCard(DrawCounts, MaxDepth)
    \/ Undo(MaxDepth)
    \/ Redo
    \/ AutoComplete(MaxDepth)

Spec == Init /\ [][Next]_vars

\* A long session of single draws with undo and redo: past fills up to
\* MAX_HISTORY_LENGTH and is trimmed.
LongDrawCounts == {1}

NextLong ==
    \/ DrawCard(LongDrawCounts, MAX_HISTORY_LENGTH + 1)
    \/ Undo(MaxUndo)
    \/ Redo

SpecLong == Init /\ [][NextLong]_vars

\* newGame(seed) that keeps what could be undone.
newGame_KeepPast(h, seed, now) ==
    [createSeededHistory(seed, now) EXCEPT !.past = h.past]

\* The store's newGame(seed): the history is replaced by a fresh one.
newGame(h, seed, now) == createSeededHistory(seed, now)

\* Seeded games: newGame(seed) at any moment of a session of single draws,
\* undo and redo.  `last` also records the seed.
InitDeal ==
    /\ \E seed \in Seeds, now \in StartTimes :
          /\ history = createSeededHistory(seed, now)
          /\ last = [op |-> "init", result |-> "dealt", pastBefore |-> 0, futureBefore |-> 0,
                     seed |-> seed]

NewGameSeeded ==
    \E seed \in Seeds, now \in StartTimes :
        /\ history' = newGame(history, seed, now)
        /\ last' = Did("newGame", "dealt", history) @@ [seed |-> seed]

NextDeal ==
    \/ NewGameSeeded
    \/ DrawCard(LongDrawCounts, MaxDealDepth)
    \/ Undo(MaxUndo)
    \/ Redo

SpecDeal == InitDeal /\ [][NextDeal]_vars

\* A deal rich in legal moves, played with moves and draws only.  It is the
\* deal of Spec with the 4 of diamonds on column 5 and the 2 of diamonds of
\* the stock exchanged, so that an Ace can come back from its foundation.
SwapCards(deck, i, j) == [deck EXCEPT ![i] = deck[j], ![j] = deck[i]]

RulesDecks == {SwapCards(deck, 21, 46) : deck \in ShuffledDecks}

InitRules ==
    /\ \E shuffled \in RulesDecks : history = createInitialHistory(shuffled)
    /\ last = [op |-> "init", result |-> "dealt", pastBefore |-> 0, futureBefore |-> 0]

NextRules ==
    \/ MoveCard(MaxRulesDepth)
    \/ DrawCard(DrawCounts, MaxRulesDepth)

SpecRules == InitRules /\ [][NextRules]_vars

\* A deal that is played out through the waste: every card drawn goes to
\* its foundation at once (the stock holds the spades and then the hearts up
\* to the Jack, Ace first), until stock and waste are both empty.
PlayDecks ==
    { AsDeck(<<
        <<"clubs", 13>>,
        <<"hearts", 13>>, <<"hearts", 12>>,
        <<"clubs", 12>>, <<"clubs", 11>>, <<"clubs", 10>>,
        <<"clubs", 9>>, <<"clubs", 8>>, <<"clubs", 7>>, <<"clubs", 6>>,
        <<"clubs", 5>>, <<"clubs", 4>>, <<"clubs", 3>>, <<"clubs", 2>>, <<"clubs", 1>>,
        <<"diamonds", 13>>, <<"diamonds", 12>>, <<"diamonds", 11>>, <<"diamonds", 10>>,
        <<"diamonds", 9>>, <<"diamonds", 8>>,
        <<"diamonds", 7>>, <<"diamonds", 6>>, <<"diamonds", 5>>, <<"diamonds", 4>>,
        <<"diamonds", 3>>, <<"diamonds", 2>>, <<"diamonds", 1>>,
        <<"hearts", 11>>, <<"hearts", 10>>, <<"hearts", 9>>, <<"hearts", 8>>, <<"hearts", 7>>,
        <<"hearts", 6>>, <<"hearts", 5>>, <<"hearts", 4>>, <<"hearts", 3>>, <<"hearts", 2>>,
        <<"hearts", 1>>,
        <<"spades", 13>>, <<"spades", 12>>, <<"spades", 11>>, <<"spades", 10>>, <<"spades", 9>>,
        <<"spades", 8>>, <<"spades", 7>>, <<"spades", 6>>, <<"spades", 5>>, <<"spades", 4>>,
        <<"spades", 3>>, <<"spades", 2>>, <<"spades", 1>>
      >>) }

InitPlay ==
    /\ \E shuffled \in PlayDecks : history = createInitialHistory(shuffled)
    /\ last = [op |-> "init", result |-> "dealt", pastBefore |-> 0, futureBefore |-> 0]

\* The moves of the waste's top card to the foundation of its suit.
WasteToFoundation(state) ==
    {[from |-> [type |-> "waste"], to |-> [type |-> "foundation", suit |-> card.suit],
      cardCount |-> 1] : card \in {state.waste[i] : i \in {Len(state.waste)} \ {0}}}

PlayWaste ==
    \E move \in WasteToFoundation(history.present) :
        /\ history' = moveCard(history, move)
        /\ last' = Did("moveCard", applyMove(history.present, move).kind, history)

\* The player draws one card once the waste has been played.
DrawWhenPlayed ==
    /\ Len(history.present.waste) = 0
    /\ DrawCard(LongDrawCounts, MAX_HISTORY_LENGTH + 1)

NextPlay ==
    \/ DrawWhenPlayed
    \/ PlayWaste
    \/ Undo(MaxUndo)
    \/ Redo

SpecPlay == InitPlay /\ [][NextPlay]_vars

\* A deal played to its end.  The tops of the columns go to the foundations
\* (diamonds, then clubs up to the 8), the stock is drawn and played card by
\* card (spades, hearts up to the 10, the 9 of clubs), and the last cards of
\* the tableau follow, by hand or by auto-complete.  Column 1 holds the Jack
\* of hearts under the 10 of clubs: moveCard also accepts the two together
\* onto the hearts.  A won game goes on with a King taken back.
EndgameDecks ==
    { AsDeck(<<
        <<"clubs", 13>>,
        <<"hearts", 11>>, <<"clubs", 10>>,
        <<"clubs", 12>>, <<"clubs", 2>>, <<"clubs", 1>>,
        <<"hearts", 13>>, <<"clubs", 5>>, <<"clubs", 4>>, <<"clubs", 3>>,
        <<"hearts", 12>>, <<"diamonds", 13>>, <<"clubs", 8>>, <<"clubs", 7>>, <<"clubs", 6>>,
        <<"clubs", 11>>, <<"diamonds", 12>>, <<"diamonds", 11>>, <<"diamonds", 10>>,
        <<"diamonds", 9>>, <<"diamonds", 8>>,
        <<"diamonds", 7>>, <<"diamonds", 6>>, <<"diamonds", 5>>, <<"diamonds", 4>>,
        <<"diamonds", 3>>, <<"diamonds", 2>>, <<"diamonds", 1>>,
        <<"clubs", 9>>,
        <<"hearts", 10>>, <<"hearts", 9>>, <<"hearts", 8>>, <<"hearts", 7>>, <<"hearts", 6>>,
        <<"hearts", 5>>, <<"hearts", 4>>, <<"hearts", 3>>, <<"hearts", 2>>, <<"hearts", 1>>,
        <<"spades", 13>>, <<"spades", 12>>, <<"spades", 11>>, <<"spades", 10>>, <<"spades", 9>>,
        <<"spades", 8>>, <<"spades", 7>>, <<"spades", 6>>, <<"spades", 5>>, <<"spades", 4>>,
        <<"spades", 3>>, <<"spades", 2>>, <<"spades", 1>>
      >>) }

InitEndgame ==
    /\ \E shuffled \in EndgameDecks : history = createInitialHistory(shuffled)
    /\ last = [op |-> "init", result |-> "dealt", pastBefore |-> 0, futureBefore |-> 0]

\* The move of the top card of column c to the foundation of its suit.
TopToFoundation(state, c) ==
    [from |-> [type |-> "tableau", columnIndex |-> c, cardIndex |-> Len(state.tableau[c + 1]) - 1],
     to |-> [type |-> "foundation", suit |-> state.tableau[c + 1][Len(state.tableau[c + 1])].suit],
     cardCount |-> 1]

\* The columns whose top card applyMove takes to its foundation.
PlayableColumns(state) ==
    {c \in 0..6 : /\ Len(state.tableau[c + 1]) > 0
                  /\ applyMove(state, TopToFoundation(state, c)).kind = "success"}

\* The player moves the first top card that goes to its foundation.
PlayTableau ==
    \E c \in PlayableColumns(history.present) :
        /\ \A lower \in PlayableColumns(history.present) : c <= lower
        /\ history' = moveCard(history, TopToFoundation(history.present, c))
        /\ last' = Did("moveCard", "success", history)

\* The move of the last two cards of column c to the foundation of the
\* first of them, announced as one card.
RunToFoundation(state, c) ==
    [from |-> [type |-> "tableau", columnIndex |-> c, cardIndex |-> Len(state.tableau[c + 1]) - 2],
     to |-> [type |-> "foundation", suit |-> state.tableau[c + 1][Len(state.tableau[c + 1]) - 1].suit],
     cardCount |-> 1]

PlayRun ==
    \E c \in {c \in 0..6 : Len(history.present.tableau[c + 1]) >= 2} :
        /\ applyMove(history.present, RunToFoundation(history.present, c)).kind = "success"
        /\ history' = moveCard(history, RunToFoundation(history.present, c))
        /\ last' = Did("moveCard", "success", history)

\* The player draws one card when nothing on the table can be played.
DrawWhenStuck ==
    /\ PlayableColumns(history.present) = {}
    /\ DrawWhenPlayed

\* Columns a King is taken back to.
TakeBackColumns == {0, 6}

\* The top card of a foundation of a won game goes back to the tableau.
TakeBack ==
    /\ history.present.isWon
    /\ history.present.stats.moves < MaxEndgameMoves
    /\ \E suit \in SuitSet, c \in TakeBackColumns :
          LET move == [from |-> [type |-> "foundation", suit |-> suit],
                       to |-> [type |-> "tableau", columnIndex |-> c, cardIndex |-> 0],
                       cardCount |-> 1]
          IN  /\ history' = moveCard(history, move)
              /\ last' = Did("moveCard", applyMove(history.present, move).kind, history)

NextEndgame ==
    \/ DrawWhenStuck
    \/ PlayWaste
    \/ PlayTableau
    \/ PlayRun
    \/ AutoComplete(MAX_HISTORY_LENGTH + 1)
    \/ TakeBack
    \/ Undo(MaxUndo)
    \/ Redo

SpecEndgame == InitEndgame /\ [][NextEndgame]_vars

\* A long game of moves.  newGame(40) deals column 5 ending in the Ace of
\* spades, face-down, under the Jack of spades; the Queen of hearts tops
\* column 3 and the 2 of hearts column 2.  The player opens with the Ace and
\* the Jack together onto the spades, and then shuttles: the top card of a
\* foundation goes to the first column that takes it, and when none does,
\* the first top card that fits goes to its foundation.  `last` also records
\* whether the game has been played straight, without undo or redo.
SessionSeeds == {40}

InitSession ==
    /\ \E seed \in SessionSeeds : history = createSeededHistory(seed, StartTime)
    /\ last = [op |-> "init", result |-> "dealt", pastBefore |-> 0, futureBefore |-> 0,
               straight |-> TRUE]

NewGameSession ==
    \E seed \in SessionSeeds :
        /\ history' = newGame(history, seed, StartTime)
        /\ last' = Did("newGame", "dealt", history) @@ [straight |-> TRUE]

OpenWithRun ==
    /\ history.present.stats.moves = 0
    /\ \E c \in {c \in 0..6 : Len(history.present.tableau[c + 1]) >= 2} :
          /\ applyMove(history.present, RunToFoundation(history.present, c)).kind = "success"
          /\ history' = moveCard(history, RunToFoundation(history.present, c))
          /\ last' = Did("moveCard", "success", history) @@ [straight |-> last.straight]

\* The move of the top card of the foundation SUITS[s] to column c.
FoundationToTableau(s, c) ==
    [from |-> [type |-> "foundation", suit |-> SUITS[s]],
     to |-> [type |-> "tableau", columnIndex |-> c, cardIndex |-> 0],
     cardCount |-> 1]

ShuttleMoves(state) ==
    LET down == {p \in (1..Len(SUITS)) \X (0..6) :
                    applyMove(state, FoundationToTableau(p[1], p[2])).kind = "success"}
        first == CHOOSE p \in down :
                    \A q \in down : p[1] < q[1] \/ (p[1] = q[1] /\ p[2] <= q[2])
        up == PlayableColumns(state)
    IN  IF down # {} THEN {FoundationToTableau(first[1], first[2])}
        ELSE {TopToFoundation(state, c) : c \in {c \in up : \A lower \in up : c <= lower}}

Shuttle ==
    /\ history.present.stats.moves < MaxSessionMoves
    /\ \E move \in ShuttleMoves(history.present) :
          /\ history' = moveCard(history, move)
          /\ last' = Did("moveCard", "success", history) @@ [straight |-> last.straight]

SessionUndo ==
    /\ undoHistory(history) # <<>> => Len(history.future) < MaxUndo
    /\ history' = undo(history)
    /\ last' = IF undoHistory(history) = <<>> THEN last
               ELSE Did("undo", "history", history) @@ [straight |-> FALSE]

SessionRedo ==
    /\ history' = redo(history)
    /\ last' = IF redoHistory(history) = <<>> THEN last
               ELSE Did("redo", "history", history) @@ [straight |-> FALSE]

NextSession ==
    \/ NewGameSession
    \/ OpenWithRun
    \/ Shuttle
    \/ SessionUndo
    \/ SessionRedo

SpecSession == InitSession /\ [][NextSession]_vars

(***************************************************************************)
(* Properties                                                              *)
(***************************************************************************)

\* The state that was present before the last committed action.
Previous == history.past[Len(history.past)]

Committed == last.op \in {"moveCard", "drawCard", "autoComplete"}
               /\ last.result \in {"success", "new"}

\* Every card of a state, pile after pile.
AllCards(state) ==
    LET columns == state.tableau[1] \o state.tableau[2] \o state.tableau[3] \o state.tableau[4]
                     \o state.tableau[5] \o state.tableau[6] \o state.tableau[7]
        piles == state.foundations["hearts"] \o state.foundations["diamonds"]
                   \o state.foundations["clubs"] \o state.foundations["spades"]
    IN  columns \o piles \o state.stock \o state.waste

Conserved(state) ==
    LET cards == AllCards(state)
    IN  /\ Len(cards) = 52
        /\ {<<cards[i].suit, cards[i].rank>> : i \in 1..Len(cards)} = SuitSet \X (1..13)

\* C1: in every state the store reaches from a deal (by any move, draw,
\* auto-complete, undo or redo) the tableau, the foundations, the stock and
\* the waste together hold exactly the 52 distinct (suit, rank) cards; so do
\* the states kept for undo and redo, and the state performAutoComplete
\* returns for the present one.
C1_CardConservation ==
    /\ Conserved(history.present)
    /\ \A i \in 1..Len(history.past) : Conserved(history.past[i])
    /\ \A i \in 1..Len(history.future) : Conserved(history.future[i])
    /\ Conserved(performAutoComplete(history.present).state)

\* A card of the waste has just been moved onto a pile, after a draw.
C1_Witness ==
    /\ last.op = "moveCard" /\ last.result = "success"
    /\ Len(history.present.waste) < Len(Previous.waste)
    /\ Conserved(history.present)

\* C2: a move that applyMove rejects with an error leaves the store as it
\* was: moveCard returns a history with the same present state and a past of
\* the same length.
C2_RejectedMoveLeavesHistory ==
    \A move \in Moves(history.present) :
        LET after == moveCard(history, move)
        IN  applyMove(history.present, move).kind = "failure"
                => /\ after.present = history.present
                   /\ Len(after.past) = Len(history.past)

\* moveCard has just been called with a rejected move, after a committed one.
C2_Witness ==
    /\ last.op = "moveCard" /\ last.result = "failure"
    /\ Len(history.past) = last.pastBefore
    /\ Len(history.past) > 0

\* C3: in every reachable state the foundation of suit s holds exactly the
\* cards (s, 1), (s, 2), ..., (s, k) in that order, whatever the from, to and
\* cardCount of the moves handed to moveCard.
C3_FoundationsAscending ==
    \A s \in SuitSet :
        LET pile == history.present.foundations[s]
        IN  /\ Len(pile) <= 13
            /\ \A i \in 1..Len(pile) : pile[i].suit = s /\ pile[i].rank = i

\* C4: every committed action (an accepted move, a draw that changes the
\* state, an auto-complete that changes the state) leaves past = the old past
\* followed by the old present, cut to its last MAX_HISTORY_LENGTH states,
\* present = the new state and future empty, whatever future held before.
LastStates(states, n) ==
    [i \in 1..Min(n, Len(states)) |-> states[Len(states) - Min(n, Len(states)) + i]]

Pushed(h, newState) ==
    [past |-> LastStates(h.past \o <<h.present>>, MAX_HISTORY_LENGTH),
     present |-> newState, future |-> <<>>]

C5_HistoryBound ==
    /\ Len(history.past) <= MAX_HISTORY_LENGTH
    /\ Len(history.past) + Len(history.future) <= MAX_HISTORY_LENGTH
    /\ Len(redo(history).past) <= MAX_HISTORY_LENGTH
    /\ \A count \in LongDrawCounts :
           LET after == drawCard(history, count)
           IN  /\ Len(after.past) <= MAX_HISTORY_LENGTH
               /\ (Len(history.past) = MAX_HISTORY_LENGTH /\ after # history)
                      => after.past = Tail(history.past) \o <<history.present>>
    /\ (Committed /\ last.pastBefore = MAX_HISTORY_LENGTH)
           => Len(history.past) = MAX_HISTORY_LENGTH

\* A draw has just been committed on a history whose past was full.
C5_Witness ==
    /\ Committed
    /\ last.pastBefore = MAX_HISTORY_LENGTH
    /\ Len(history.past) = MAX_HISTORY_LENGTH

\* C6: with an empty past undoHistory returns null and undo leaves the
\* store's history as it is; otherwise the new present is the last state of
\* past, the new past is past without it, and the new future is the old
\* present followed by the old future.
C6_Undo ==
    LET newHistory == undoHistory(history)
        n == Len(history.past)
    IN  /\ n = 0 => newHistory = <<>> /\ undo(history) = history
        /\ n > 0 => /\ newHistory # <<>>
                    /\ undo(history) = newHistory[1]
                    /\ newHistory[1].present = history.past[n]
                    /\ newHistory[1].past = SubSeq(history.past, 1, n - 1)
                    /\ newHistory[1].future = <<history.present>> \o history.future
        /\ (last.op = "undo" /\ last.result = "history")
               => /\ Len(history.past) = last.pastBefore - 1
                  /\ Len(history.future) = last.futureBefore + 1

\* An undo has just gone back one state while there were states to redo.
C6_Witness ==
    /\ last.op = "undo" /\ last.result = "history"
    /\ last.futureBefore > 0
    /\ Len(history.future) = last.futureBefore + 1

\* C7: with an empty future redoHistory returns null and redo leaves the
\* store's history as it is; otherwise the new present is the first state of
\* future, the new future is future without it, and the new past is the old
\* past followed by the old present.
C7_Redo ==
    LET newHistory == redoHistory(history)
        n == Len(history.future)
    IN  /\ n = 0 => newHistory = <<>> /\ redo(history) = history
        /\ n > 0 => /\ newHistory # <<>>
                    /\ redo(history) = newHistory[1]
                    /\ newHistory[1].present = history.future[1]
                    /\ newHistory[1].future = SubSeq(history.future, 2, n)
                    /\ newHistory[1].past = history.past \o <<history.present>>
        /\ (last.op = "redo" /\ last.result = "history")
               => /\ Len(history.past) = last.pastBefore + 1
                  /\ Len(history.future) = last.futureBefore - 1

\* A redo has just gone forward one state from a history with a non-empty
\* past.
C7_Witness ==
    /\ last.op = "redo" /\ last.result = "history"
    /\ last.pastBefore > 0
    /\ Len(history.past) = last.pastBefore + 1

\* States pushed onto a history in the round trip: what a draw makes of its
\* present, and the states it already holds.
PushedStates(h) ==
    {drawFromStock(h.present, count).state : count \in DrawCounts}
        \cup {h.past[i] : i \in 1..Len(h.past)}
        \cup {h.future[i] : i \in 1..Len(h.future)}

\* C8: for every history h and state s, undoing push(h, s) gives a history
\* whose present is h.present, and redoing that one gives a history whose
\* present is s; also when the push trims a full past.
C8_UndoRedoRoundTrip ==
    \A s \in PushedStates(history) :
        LET undone == undoHistory(pushToHistory(history, s))
        IN  /\ undone # <<>>
            /\ undone[1].present = history.present
            /\ redoHistory(undone[1]) # <<>>
            /\ redoHistory(undone[1])[1].present = s

\* The store has just redone the one draw it had undone, with a full past.
C8_Witness ==
    /\ last.op = "redo" /\ last.result = "history"
    /\ last.futureBefore = 1
    /\ Len(history.past) = MAX_HISTORY_LENGTH
    /\ undoHistory(history)[1].future[1] = history.present

\* The lead card of a move and the pile it is moved onto.
LeadCard(state, move) == getCardsForMove(state, move.from).value[1]

YieldsCards(state, move) ==
    /\ getCardsForMove(state, move.from).kind = "success"
    /\ Len(getCardsForMove(state, move.from).value) > 0

IsRed(card) == card.suit \in {"hearts", "diamonds"}

\* Error texts of validateMove that contain "King".
MentionsKing(error) == error = "Only Kings can be placed on empty tableau columns"

\* C9: for every move of the present state whose source yields at least one
\* card and whose destination is a tableau column, validateMove accepts
\* exactly when the column is empty and the lead card is a King, or the
\* column is not empty and its top card has the other colour and the rank
\* just above the lead card's; a lead card that is no King is refused on an
\* empty column with an error text that mentions the King.
C9_TableauDestination ==
    \A move \in Moves(history.present) :
        (move.to.type = "tableau" /\ IsColumn(move.to.columnIndex)
            /\ YieldsCards(history.present, move))
        => LET lead == LeadCard(history.present, move)
               column == history.present.tableau[move.to.columnIndex + 1]
               top == column[Len(column)]
               verdict == validateMove(history.present, move)
           IN  /\ verdict.kind \in {"success", "failure"}
               /\ verdict.kind = "success"
                    <=> \/ column = <<>> /\ lead.rank = 13
                        \/ column # <<>> /\ IsRed(lead) # IsRed(top) /\ lead.rank = top.rank - 1
               /\ (column = <<>> /\ lead.rank # 13)
                    => verdict.kind = "failure" /\ MentionsKing(verdict.error)

\* A King has just been moved onto a column that was empty.
C9_Witness ==
    /\ last.op = "moveCard" /\ last.result = "success"
    /\ \E c \in 1..7 : /\ Previous.tableau[c] = <<>>
                       /\ Len(history.present.tableau[c]) = 1
                       /\ history.present.tableau[c][1].rank = 13
    /\ Len(history.past) = last.pastBefore + 1

\* C10: for every move of the present state whose source yields at least one
\* card and whose destination is a foundation, validateMove rejects when
\* cardCount exceeds 1 and otherwise accepts exactly when the lead card has
\* the foundation's suit and is an Ace for an empty foundation or one rank
\* above the top card of a non-empty one.
C10_FoundationDestination ==
    \A move \in Moves(history.present) :
        (move.to.type = "foundation" /\ move.to.suit \in SuitSet
            /\ YieldsCards(history.present, move))
        => LET lead == LeadCard(history.present, move)
               pile == history.present.foundations[move.to.suit]
               top == pile[Len(pile)]
               verdict == validateMove(history.present, move)
           IN  /\ verdict.kind \in {"success", "failure"}
               /\ move.cardCount > 1 => verdict.kind = "failure"
               /\ move.cardCount <= 1
                    => (verdict.kind = "success"
                          <=> /\ lead.suit = move.to.suit
                              /\ \/ pile = <<>> /\ lead.rank = 1
                                 \/ pile # <<>> /\ lead.rank = top.rank + 1)

\* A card has just been moved onto a foundation that already held its Ace.
C10_Witness ==
    /\ last.op = "moveCard" /\ last.result = "success"
    /\ \E s \in SuitSet : /\ Len(Previous.foundations[s]) = 1
                          /\ Len(history.present.foundations[s]) = 2
                          /\ history.present.foundations[s][2].rank = 2
                          /\ history.present.foundations[s][2].suit = s

\* The first n cards of a pile.
FirstCards(pile, n) == SubSeq(pile, 1, n)

\* C11: in every state no move to the stock, to the waste or from the stock
\* is accepted by validateMove or applyMove (it gets an error result whenever
\* its source can be read), and an accepted move leaves the stock as it is
\* and never adds a card to the waste.
C11_StockWasteNeverEndpoints ==
    \A move \in Moves(history.present) :
        LET verdict == validateMove(history.present, move)
            result == applyMove(history.present, move)
        IN  /\ (move.to.type \in {"stock", "waste"} \/ move.from.type = "stock")
                => /\ verdict.kind # "success"
                   /\ result.kind # "success"
                   /\ getCardsForMove(history.present, move.from).kind = "success"
                          => verdict.kind = "failure" /\ result.kind = "failure"
            /\ result.kind = "success"
                => /\ result.value.stock = history.present.stock
                   /\ Len(result.value.waste) <= Len(history.present.waste)
                   /\ result.value.waste
                          = FirstCards(history.present.waste, Len(result.value.waste))

\* moveCard has just refused a move in a state whose waste holds a card that
\* validateMove refuses to put on the stock and to put back on the waste.
C11_Witness ==
    /\ last.op = "moveCard" /\ last.result = "failure"
    /\ Len(history.present.waste) > 0
    /\ validateMove(history.present,
                    [from |-> [type |-> "waste"], to |-> [type |-> "stock"], cardCount |-> 1])
           = failure(ErrToStock)
    /\ validateMove(history.present,
                    [from |-> [type |-> "waste"], to |-> [type |-> "waste"], cardCount |-> 1])
           = failure(ErrToWaste)

\* C12: validateMove is total: for every move of every state, also one whose
\* tableau columnIndex is outside 0..6, whose cardIndex is outside the column
\* or whose foundation key names no pile, it returns a success or an error
\* result and never throws; a source that is out of range or empty gets the
\* 'No cards at source location' error.
C12_ValidateMoveTotal ==
    \A move \in Moves(history.present) :
        LET verdict == validateMove(history.present, move)
            from == move.from
        IN  /\ verdict.kind \in {"success", "failure"}
            /\ (from.type = "tableau" /\ ~IsColumn(from.columnIndex))
                   => verdict = failure(ErrNoCardsAtSource)
            /\ (from.type = "tableau" /\ IsColumn(from.columnIndex)
                  /\ from.cardIndex >= Len(history.present.tableau[from.columnIndex + 1]))
                   => verdict = failure(ErrNoCardsAtSource)
            /\ (from.type = "foundation" /\ from.suit \notin SuitSet)
                   => verdict = failure(ErrNoCardsAtSource)

\* The pile a location of an existing column or foundation names.
PileAt(state, location) ==
    CASE location.type = "tableau" -> state.tableau[location.columnIndex + 1]
      [] location.type = "foundation" -> state.foundations[location.suit]
      [] location.type = "stock" -> state.stock
      [] location.type = "waste" -> state.waste

SamePile(a, b) ==
    /\ a.type = b.type
    /\ a.type = "tableau" => a.columnIndex = b.columnIndex
    /\ a.type = "foundation" => a.suit = b.suit

\* The last n cards of a pile.
LastCards(pile, n) == SubSeq(pile, Len(pile) - n + 1, Len(pile))

\* C13: every accepted move relocates exactly move.cardCount cards: the source
\* pile loses move.cardCount cards and the destination pile gains them.
C13_MovesCardCountCards ==
    \A move \in Moves(history.present) :
        LET result == applyMove(history.present, move)
            source == PileAt(history.present, move.from)
            destination == PileAt(history.present, move.to)
        IN  (result.kind = "success" /\ ~SamePile(move.from, move.to))
                => /\ Len(PileAt(result.value, move.from)) = Len(source) - move.cardCount
                   /\ Len(PileAt(result.value, move.to)) = Len(destination) + move.cardCount
                   /\ LastCards(PileAt(result.value, move.to), move.cardCount)
                        = LastCards(source, move.cardCount)

\* An accepted move of the present state between two different piles.
Relocates(move) ==
    /\ applyMove(history.present, move).kind = "success"
    /\ ~SamePile(move.from, move.to)

\* C14: an accepted move from a tableau column cuts the column at cardIndex
\* (counted from the end when negative) and turns the card that becomes its
\* top face-up, leaving the cards below as they were; an accepted move from
\* the waste or from a foundation removes exactly the top card of that pile.
C14_SourceRemoval ==
    \A move \in Moves(history.present) :
        Relocates(move)
        => LET source == PileAt(history.present, move.from)
               after == PileAt(applyMove(history.present, move).value, move.from)
               kept == Len(after)
           IN  IF move.from.type = "tableau"
               THEN /\ move.from.cardIndex >= 0 => kept = move.from.cardIndex
                    /\ move.from.cardIndex < 0 => kept = Len(source) + move.from.cardIndex
                    /\ kept < Len(source)
                    /\ \A i \in 1..(kept - 1) : after[i] = source[i]
                    /\ kept > 0 => after[kept] = [source[kept] EXCEPT !.faceUp = TRUE]
               ELSE /\ move.from.type \in {"waste", "foundation"}
                    /\ kept = Len(source) - 1
                    /\ after = FirstCards(source, kept)

\* A move has just taken the top card of a column and turned the face-down
\* card below it face-up.
C14_Witness ==
    /\ last.op = "moveCard" /\ last.result = "success"
    /\ \E c \in 1..7 :
           LET before == Previous.tableau[c]
               after == history.present.tableau[c]
           IN  /\ Len(after) > 0
               /\ Len(after) < Len(before)
               /\ ~before[Len(after)].faceUp
               /\ after[Len(after)].faceUp

\* C15: an accepted move appends the moved run, in its order, to the end of
\* the destination pile, and leaves every pile that is neither its source nor
\* its destination as it was: the other columns, the other foundations, the
\* stock, and the waste when it is not the source.
C15_DestinationAndFrame ==
    \A move \in Moves(history.present) :
        LET result == applyMove(history.present, move)
            run == getCardsForMove(history.present, move.from).value
            column(c) == [type |-> "tableau", columnIndex |-> c]
            pile(s) == [type |-> "foundation", suit |-> s]
        IN  result.kind = "success"
            => /\ ~SamePile(move.from, move.to)
                    => PileAt(result.value, move.to) = PileAt(history.present, move.to) \o run
               /\ \A c \in 0..6 :
                      (~SamePile(column(c), move.from) /\ ~SamePile(column(c), move.to))
                          => result.value.tableau[c + 1] = history.present.tableau[c + 1]
               /\ \A s \in SuitSet :
                      (~SamePile(pile(s), move.from) /\ ~SamePile(pile(s), move.to))
                          => result.value.foundations[s] = history.present.foundations[s]
               /\ result.value.stock = history.present.stock
               /\ move.from.type # "waste" => result.value.waste = history.present.waste

\* A move has just put a run of two or more cards on a pile.
C15_Witness ==
    /\ last.op = "moveCard" /\ last.result = "success"
    /\ \/ \E c \in 1..7 : Len(history.present.tableau[c]) >= Len(Previous.tableau[c]) + 2
       \/ \E s \in SuitSet :
              Len(history.present.foundations[s]) >= Len(Previous.foundations[s]) + 2
    /\ history.present.stock = Previous.stock

\* C16: an accepted move yields a state whose stats.moves is one more than
\* before and whose score, startTime and elapsedSeconds are as before; a
\* rejected move yields no state.
C16_MoveCounter ==
    \A move \in Moves(history.present) :
        LET result == applyMove(history.present, move)
            stats == history.present.stats
        IN  /\ result.kind = "success"
                => /\ result.value.stats.moves = stats.moves + 1
                   /\ result.value.stats.score = stats.score
                   /\ result.value.stats.startTime = stats.startTime
                   /\ result.value.stats.elapsedSeconds = stats.elapsedSeconds
            /\ result.kind # "success" => "value" \notin DOMAIN result

\* The second move of a game has just been applied.
C16_Witness ==
    /\ last.op = "moveCard" /\ last.result = "success"
    /\ Previous.stats.moves = 1
    /\ history.present.stats.moves = 2

\* The cards of a pile from its top down, each face-up.
DrawnFrom(pile, n) ==
    [i \in 1..n |-> [pile[Len(pile) + 1 - i] EXCEPT !.faceUp = TRUE]]

\* C17: with a non-empty stock and a count >= 0, drawFromStock moves exactly
\* min(count, stock length) cards: the stock keeps its other cards in order,
\* and the drawn cards are put on the old waste face-up, the card that was on
\* top of the stock first.
C17_DrawMovesMinCount ==
    \A count \in NonNegativeCounts :
        LET stock == history.present.stock
            n == Min(count, Len(stock))
            drawn == drawFromStock(history.present, count).state
        IN  Len(stock) > 0
            => /\ drawn.stock = FirstCards(stock, Len(stock) - n)
               /\ drawn.waste = history.present.waste \o DrawnFrom(stock, n)

\* C18: with an empty stock and a non-empty waste, drawFromStock with any
\* count returns a new state whose stock is the old waste in reversed order,
\* every card face-down, and whose waste is empty: no card is drawn.
C18_Recycle ==
    (Len(history.present.stock) = 0 /\ Len(history.present.waste) > 0)
    => \A count \in NonNegativeCounts :
           LET waste == history.present.waste
               recycled == drawFromStock(history.present, count)
           IN  /\ ~recycled.same
               /\ recycled.state.waste = <<>>
               /\ recycled.state.stock
                      = [i \in 1..Len(waste) |-> [waste[Len(waste) + 1 - i] EXCEPT !.faceUp = FALSE]]

\* A draw has just recycled a waste of 24 cards into the stock.
C18_Witness ==
    /\ last.op = "drawCard" /\ last.result = "new"
    /\ Len(Previous.stock) = 0
    /\ Len(Previous.waste) = 24
    /\ Len(history.present.stock) = 24
    /\ history.present.waste = <<>>

\* C19: when stock and waste are both empty drawFromStock returns the very
\* same state and drawCard leaves the history as it is; whenever
\* drawFromStock changes the state, drawCard commits exactly one entry: the
\* old present goes on past and the new state becomes present.
C19_NoOpDraw ==
    /\ \A count \in NonNegativeCounts :
           LET drawn == drawFromStock(history.present, count)
               after == drawCard(history, count)
           IN  /\ (Len(history.present.stock) = 0 /\ Len(history.present.waste) = 0)
                      => drawn.same /\ drawn.state = history.present /\ after = history
               /\ drawn.state # history.present
                      => /\ after.present = drawn.state
                         /\ after.past = LastStates(history.past \o <<history.present>>,
                                                    MAX_HISTORY_LENGTH)
                         /\ after.future = <<>>
    /\ (last.op = "drawCard" /\ last.result = "same")
           => Len(history.past) = last.pastBefore /\ Len(history.future) = last.futureBefore
    /\ (last.op = "drawCard" /\ last.result = "new")
           => Previous # history.present

\* drawCard has just been called with stock and waste both empty, after every
\* card of the stock was played.
C19_Witness ==
    /\ last.op = "drawCard" /\ last.result = "same"
    /\ Len(history.present.stock) = 0
    /\ Len(history.present.waste) = 0
    /\ Len(history.past) = last.pastBefore
    /\ Len(history.past) > 0

\* C20: a draw or a recycle changes only the stock and the waste: tableau,
\* foundations, stats and isWon of the state drawFromStock returns are those
\* of its argument.
C20_DrawFrame ==
    \A count \in NonNegativeCounts :
        LET drawn == drawFromStock(history.present, count).state
        IN  /\ drawn.tableau = history.present.tableau
            /\ drawn.foundations = history.present.foundations
            /\ drawn.stats = history.present.stats
            /\ drawn.isWon = history.present.isWon
            /\ DOMAIN drawn = DOMAIN history.present

\* A card has just been drawn in a game that has seen moves: the move counter
\* and the foundations are as before the draw.
C20_Witness ==
    /\ last.op = "drawCard" /\ last.result = "new"
    /\ Previous.stats.moves > 0
    /\ history.present.stats = Previous.stats
    /\ history.present.foundations = Previous.foundations
    /\ history.present.waste # Previous.waste

\* The states the generator of `seed` goes through in n calls.
RECURSIVE randomStates(_, _)
randomStates(state, n) ==
    IF n = 0 THEN <<>>
    ELSE <<createSeededRandom(state)>> \o randomStates(createSeededRandom(state), n - 1)

SeededStates == [seed \in Seeds |-> randomStates(seed, Len(createDeck) - 1)]

Dealt == last.op \in {"init", "newGame"}

Faces(cards) == [k \in 1..Len(cards) |-> <<cards[k].suit, cards[k].rank>>]

\* C21: a seeded deal fills column i (0..6) with i+1 cards, the columns and
\* then the stock taking the shuffled deck in order; only the last card of a
\* column is face up, the 24 stock cards are face down, waste and
\* foundations are empty, moves and score are 0 and the game is not won.
C21_DealShape ==
    Dealt =>
        LET state == history.present
            shuffled == SeededDecks[last.seed]
            columns == state.tableau
        IN  /\ Len(columns) = 7
            /\ \A i \in 0..6 :
                  /\ Len(columns[i + 1]) = i + 1
                  /\ \A row \in 1..(i + 1) : columns[i + 1][row].faceUp <=> row = i + 1
            /\ Faces(columns[1] \o columns[2] \o columns[3] \o columns[4] \o columns[5]
                      \o columns[6] \o columns[7] \o state.stock) = Faces(shuffled)
            /\ Len(state.stock) = 24
            /\ \A k \in 1..Len(state.stock) : ~state.stock[k].faceUp
            /\ state.waste = <<>>
            /\ \A suit \in SuitSet : state.foundations[suit] = <<>>
            /\ state.stats.moves = 0
            /\ state.stats.score = 0
            /\ state.isWon = FALSE

\* A seeded game dealt in the middle of a session.
C21_Witness ==
    /\ last.op = "newGame"
    /\ last.seed = 42
    /\ last.pastBefore > 0
    /\ Len(history.present.tableau[7]) = 7

C29_NewGameResets ==
    last.op = "newGame" =>
        /\ history.past = <<>>
        /\ history.future = <<>>
        /\ \E now \in StartTimes : history.present = dealGame(last.seed, now)

\* A new game started when there were states to undo and to redo.
C29_Witness ==
    /\ last.op = "newGame"
    /\ last.pastBefore > 0
    /\ last.futureBefore > 0
    /\ history.past = <<>>
    /\ history.future = <<>>

\* Every state the history holds.
Kept == {history.past[i] : i \in 1..Len(history.past)} \cup {history.present}
          \cup {history.future[i] : i \in 1..Len(history.future)}

AllThirteen(state) == \A suit \in SuitSet : Len(state.foundations[suit]) = 13

\* C24: in every state the store holds (present, to undo, to redo) and in
\* the state auto-complete computes from the present one, isWon is true
\* exactly when each of the four foundations holds 13 cards.
C24_WinFlag ==
    /\ \A state \in Kept : state.isWon <=> AllThirteen(state)
    /\ LET final == performAutoComplete(history.present).state
       IN  final.isWon <=> AllThirteen(final)

\* A card has just been moved back off a full foundation of a won game.
C24_Witness ==
    /\ last.op = "moveCard"
    /\ last.result = "success"
    /\ Previous.isWon
    /\ AllThirteen(Previous)
    /\ ~history.present.isWon
    /\ \E suit \in SuitSet : Len(history.present.foundations[suit]) = 12

TableauCards(state) ==
    state.tableau[1] \o state.tableau[2] \o state.tableau[3] \o state.tableau[4]
        \o state.tableau[5] \o state.tableau[6] \o state.tableau[7]

\* C25: canAutoComplete is true exactly when stock and waste hold no card
\* and the tableau holds no face-down card; when it is false the store's
\* autoComplete leaves the history as it is.
C25_AutoCompleteGate ==
    LET state == history.present
        cards == TableauCards(state)
    IN  /\ canAutoComplete(state) <=>
              /\ state.stock \o state.waste = <<>>
              /\ ~\E i \in 1..Len(cards) : ~cards[i].faceUp
        /\ ~canAutoComplete(state) => autoComplete(history) = history

\* Stock and waste are empty and a top card could go to its foundation, but
\* a face-down card keeps the gate shut.
C25_Witness ==
    /\ Len(history.present.stock) = 0
    /\ Len(history.present.waste) = 0
    /\ ~canAutoComplete(history.present)
    /\ ~performAutoComplete(history.present).same
    /\ autoComplete(history) = history

\* C26: from every reachable state that satisfies canAutoComplete,
\* auto-complete makes at most 52 card moves and returns a won state.
C26_AutoCompleteWins ==
    canAutoComplete(history.present) =>
        LET final == performAutoComplete(history.present).state
        IN  /\ final.stats.moves - history.present.stats.moves <= 52
            /\ final.isWon

\* The move of the top card of column c to the foundation `suit`.
TopTo(state, c, suit) ==
    [from |-> [type |-> "tableau", columnIndex |-> c, cardIndex |-> Len(state.tableau[c + 1]) - 1],
     to |-> [type |-> "foundation", suit |-> suit],
     cardCount |-> 1]

\* The columns whose top card validateMove lets onto some foundation.
Movable(state) ==
    {c \in 0..6 : /\ Len(state.tableau[c + 1]) > 0
                  /\ \E suit \in SuitSet : validateMove(state, TopTo(state, c, suit)).kind = "success"}

\* One greedy step: the top card of the lowest movable column goes to the
\* foundation that takes it.
GreedyStep(state) ==
    LET c == CHOOSE c \in Movable(state) : \A other \in Movable(state) : c <= other
        suit == CHOOSE suit \in SuitSet : validateMove(state, TopTo(state, c, suit)).kind = "success"
        column == state.tableau[c + 1]
        card == column[Len(column)]
        rest == SubSeq(column, 1, Len(column) - 1)
        uncovered == IF Len(rest) = 0 THEN rest
                     ELSE [rest EXCEPT ![Len(rest)] = [@ EXCEPT !.faceUp = TRUE]]
        after == [state EXCEPT !.tableau[c + 1] = uncovered,
                               !.foundations[suit] = Append(@, card),
                               !.stats.moves = @ + 1]
    IN  [after EXCEPT !.isWon = AllThirteen(after)]

\* C27: auto-complete of the present state is the greedy fixed point.  When
\* the state is won or no column's top card can go to a foundation it is
\* returned as it is; otherwise the result is that of auto-complete after
\* one greedy step.  The result is won or has no movable top card, its stock
\* and waste are those of the present state, and its move counter has grown
\* by the number of cards that left the tableau.
C27_GreedyFixedPoint ==
    LET state == history.present
        final == performAutoComplete(state).state
    IN  /\ IF AllThirteen(state) \/ Movable(state) = {}
           THEN final = state /\ findMove(state, 0) = <<>>
           ELSE /\ findMove(state, 0) = <<GreedyStep(state)>>
                /\ final = performAutoComplete(GreedyStep(state)).state
        /\ final.isWon \/ Movable(final) = {}
        /\ final.stock = state.stock
        /\ final.waste = state.waste
        /\ final.stats.moves - state.stats.moves
              = Len(TableauCards(state)) - Len(TableauCards(final))

\* The store has just committed an auto-complete that moved several cards,
\* the first of them not from the first column that holds cards.
C27_Witness ==
    /\ last.op = "autoComplete"
    /\ history.present.stats.moves - Previous.stats.moves >= 2
    /\ Movable(Previous) # {}
    /\ \E c \in 0..6 : Len(Previous.tableau[c + 1]) > 0 /\ c \notin Movable(Previous)
                       /\ \A m \in Movable(Previous) : c < m
    /\ Movable(history.present) = {}

\* Places of the board a card can be picked from: every card of a column,
\* the top of each foundation, of the waste and of the stock.
BoardLocations(state) ==
    {[type |-> "tableau", columnIndex |-> c, cardIndex |-> i] :
        c \in 0..6, i \in 0..6} \cup
    {[type |-> "foundation", suit |-> suit] : suit \in SuitSet} \cup
    {[type |-> "waste"], [type |-> "stock"]}

\* The candidates in the order findBestMove is said to try them.
Candidates(state, from) ==
    LET cardCount == IF from.type = "tableau"
                     THEN Len(state.tableau[from.columnIndex + 1]) - from.cardIndex
                     ELSE 1
        slots == IF cardCount = 1
                 THEN [i \in 1..4 |-> [from |-> from, to |-> FoundationSlot(i - 1), cardCount |-> 1]]
                 ELSE <<>>
        columns == [i \in 1..7 |-> [from |-> from,
                                     to |-> [type |-> "tableau", columnIndex |-> i - 1, cardIndex |-> 0],
                                     cardCount |-> cardCount]]
    IN  slots \o SelectSeq(columns, LAMBDA m : ~(from.type = "tableau" /\ m.to.columnIndex = from.columnIndex))

\* C28: for every place of the board, findBestMove returns the first
\* candidate validateMove accepts (foundation slots 0..3 when one card would
\* move, then columns 0..6 without the source column), a move that
\* applyMove accepts too and whose cardCount is the number of cards from
\* cardIndex to the end of the column (1 for waste and foundation); it
\* returns 'no move' exactly when no card is there or no candidate validates.
C28_FindBestMove ==
    LET state == history.present
    IN  \A from \in BoardLocations(state) :
            LET best == findBestMove(state, from)
                cands == Candidates(state, from)
                valid == {k \in 1..Len(cands) : validateMove(state, cands[k]).kind = "success"}
                card == getCardAtLocation(state, from).value
            IN  /\ best.kind \in {"move", "null"}
                /\ best.kind = "null" <=> (card = <<>> \/ valid = {})
                /\ best.kind = "move" =>
                      /\ best.value = cands[CHOOSE k \in valid : \A other \in valid : k <= other]
                      /\ applyMove(state, best.value).kind = "success"
                      /\ best.value.cardCount = Len(getCardsForMove(state, from).value)

\* The runs a column offers: the cards from cardIndex to the end.
IsRun(cards) ==
    \A k \in 1..(Len(cards) - 1) :
        /\ getCardColor(cards[k]) # getCardColor(cards[k + 1])
        /\ cards[k].rank = cards[k + 1].rank + 1

\* C30: whenever validateMove accepts a move that takes more than one card
\* from a tableau column, the cards from cardIndex to the end of the column
\* alternate in colour and descend in rank by one.
C30_RunsConsistent ==
    LET state == history.present
    IN  \A move \in Moves(state) :
            (/\ move.from.type = "tableau"
             /\ validateMove(state, move).kind = "success"
             /\ Len(getCardsForMove(state, move.from).value) > 1)
            => IsRun(getCardsForMove(state, move.from).value)

(***************************************************************************)
(* Orientation of the cards                                                *)
(***************************************************************************)

\* The stock lies face-down and the waste face-up.
Oriented(state) ==
    /\ \A i \in 1..Len(state.stock) : ~state.stock[i].faceUp
    /\ \A i \in 1..Len(state.waste) : state.waste[i].faceUp

FromWaste == [from |-> [type |-> "waste"]]

\* C31: in every reachable state every card of the stock is face-down and
\* every card of the waste is face-up; a draw of any count, a recycle and the
\* removal of the waste's top card keep it so.
C31_StockDownWasteUp ==
    /\ Oriented(history.present)
    /\ \A count \in NonNegativeCounts :
          Oriented(drawFromStock(history.present, count).state)
    /\ Oriented(removeCardsFromSource(history.present, FromWaste))

\* The waste has just been recycled into the stock.
C31_Witness ==
    /\ last.op = "drawCard" /\ last.result = "new"
    /\ Len(Previous.stock) = 0
    /\ Len(history.present.stock) > 1
    /\ Len(history.present.waste) = 0

\* C32: in every reachable state the top card of every non-empty column of
\* the tableau is face-up.
C32_TopFaceUp ==
    \A c \in 1..7 :
        Len(history.present.tableau[c]) > 0
            => history.present.tableau[c][Len(history.present.tableau[c])].faceUp

\* The face-down cards of a pile lie under its face-up cards.
FaceDownPrefix(cards) ==
    \A i \in 1..Len(cards) : \A j \in i..Len(cards) : cards[i].faceUp => cards[j].faceUp

\* C33: applyMove never relocates a face-down card, so that the face-down
\* cards form a prefix of every column and no foundation holds a face-down
\* card.
C33_FaceDownCardsStay ==
    /\ \A c \in 1..7 : FaceDownPrefix(history.present.tableau[c])
    /\ \A suit \in SuitSet :
          \A i \in 1..Len(history.present.foundations[suit]) :
              history.present.foundations[suit][i].faceUp
    /\ \A move \in Moves(history.present) :
          applyMove(history.present, move).kind = "success"
              => LET cards == getCardsForMove(history.present, move.from).value
                 IN  \A i \in 1..Len(cards) : cards[i].faceUp

\* C34: applyMove rejects every move from a column of the tableau to the
\* same column.
C34_SameColumnRejected ==
    \A move \in Moves(history.present) :
        (/\ move.from.type = "tableau"
         /\ move.to.type = "tableau"
         /\ move.from.columnIndex = move.to.columnIndex)
            => applyMove(history.present, move).kind # "success"

(***************************************************************************)
(* A pass through the stock                                                *)
(***************************************************************************)

\* Counts of a pass: one card, a few, and more cards than a stock holds.
PassCounts == NonNegativeCounts \ {0}

RECURSIVE fullPass(_, _)
\* drawFromStock with the same count until the stock is empty, and once more.
fullPass(state, count) ==
    IF Len(state.stock) = 0 THEN drawFromStock(state, count).state
    ELSE fullPass(drawFromStock(state, count).state, count)

\* C35: from a reachable state with an empty waste and the stock S, drawing
\* with a fixed count of at least one until the stock is empty, and once more,
\* gives back the stock S, same cards in the same order and all face-down,
\* and an empty waste.
C35_FullPassRoundTrip ==
    Len(history.present.waste) = 0
        => \A count \in PassCounts :
              LET after == fullPass(history.present, count)
              IN  /\ after.stock = history.present.stock
                  /\ after.waste = <<>>
                  /\ \A i \in 1..Len(after.stock) : ~after.stock[i].faceUp

\* The waste has been played and the stock holds cards that no count of
\* PassCounts but the largest takes at once.
C35_Witness ==
    /\ last.op = "moveCard" /\ last.result = "success"
    /\ Len(history.present.waste) = 0
    /\ Len(history.present.stock) > 3
    /\ Len(history.present.stock) < Len(Previous.stock) + Len(Previous.waste)

(***************************************************************************)
(* Store actions and the history                                           *)
(***************************************************************************)

\* Moves a player of the endgame tries: the top card or the last two cards
\* of a column to a foundation, the waste's top card to its foundation, and
\* the top card of a foundation to the first column, the last one, or a
\* column the tableau does not have.
TriedMoves(state) ==
    {TopToFoundation(state, c) : c \in {c \in 0..6 : Len(state.tableau[c + 1]) >= 1}}
    \cup {RunToFoundation(state, c) : c \in {c \in 0..6 : Len(state.tableau[c + 1]) >= 2}}
    \cup WasteToFoundation(state)
    \cup {FoundationToTableau(s, c) : s \in 1..Len(SUITS), c \in TakeBackColumns \cup {7}}

\* C36: a moveCard that is rejected, a drawCard that finds stock and waste
\* empty and an autoComplete that is gated off or moves nothing leave
\* history.future exactly as it was, so that a redo that follows restores
\* the same state.
C36_NoOpsKeepFuture ==
    /\ \A move \in TriedMoves(history.present) :
          applyMove(history.present, move).kind # "success"
              => /\ moveCard(history, move).future = history.future
                 /\ redo(moveCard(history, move)) = redo(history)
    /\ \A count \in DrawCounts :
          drawFromStock(history.present, count).same
              => /\ drawCard(history, count).future = history.future
                 /\ redo(drawCard(history, count)) = redo(history)
    /\ (~canAutoComplete(history.present) \/ performAutoComplete(history.present).same)
          => /\ autoComplete(history).future = history.future
             /\ redo(autoComplete(history)) = redo(history)

\* A draw has found stock and waste empty while a state was waiting to be
\* redone, in a game whose auto-complete is open and moves nothing.
C36_Witness ==
    /\ last.op = "drawCard" /\ last.result = "same"
    /\ last.futureBefore > 0
    /\ Len(history.future) = last.futureBefore
    /\ canAutoComplete(history.present)
    /\ performAutoComplete(history.present).same

\* C37: an autoComplete of the store that changes the state commits exactly
\* one entry: past gains the state before the auto-complete as its last
\* entry, whatever the number of cards moved, and one undo restores exactly
\* that state.
C37_AutoCompleteOneEntry ==
    /\ (canAutoComplete(history.present) /\ ~performAutoComplete(history.present).same)
          => LET after == autoComplete(history)
             IN  /\ after.past = LastStates(Append(history.past, history.present), MAX_HISTORY_LENGTH)
                 /\ after.present = performAutoComplete(history.present).state
                 /\ after.present # history.present
                 /\ undo(after).present = history.present
                 /\ undo(after).past = SubSeq(after.past, 1, Len(after.past) - 1)
    /\ last.op = "autoComplete"
          => /\ Len(history.past) = last.pastBefore + 1
             /\ undo(history).present = Previous
             /\ Len(undo(history).past) = last.pastBefore

\* Auto-complete has moved several cards and they make one entry.
C37_Witness ==
    /\ last.op = "autoComplete"
    /\ history.present.stats.moves > Previous.stats.moves + 2
    /\ Len(history.past) = last.pastBefore + 1

\* C38: with a non-empty past, redo after undo gives the history back; with
\* a non-empty future, undo after redo gives it back; and neither undo nor
\* redo changes the number of states past and future hold together.
C38_UndoRedoInverse ==
    /\ Len(history.past) > 0
          => /\ redoHistory(undoHistory(history)[1]) = <<history>>
             /\ redo(undo(history)) = history
    /\ Len(history.future) > 0
          => /\ undoHistory(redoHistory(history)[1]) = <<history>>
             /\ undo(redo(history)) = history
    /\ Len(undo(history).past) + Len(undo(history).future)
          = Len(history.past) + Len(history.future)
    /\ Len(redo(history).past) + Len(redo(history).future)
          = Len(history.past) + Len(history.future)
    /\ (last.op \in {"undo", "redo"} /\ last.result = "history")
          => Len(history.past) + Len(history.future) = last.pastBefore + last.futureBefore

\* An undo has just been made and the history has states on both sides, so
\* that undo and redo both act on it.
C38_Witness ==
    /\ last.op = "undo" /\ last.result = "history"
    /\ Len(history.past) > 1
    /\ Len(history.future) > 1
    /\ undo(history) # history
    /\ redo(history) # history

RECURSIVE undoTimes(_, _)
\* The store's history after n calls of undo.
undoTimes(h, n) ==
    IF n <= 0 \/ Len(h.past) = 0 THEN h ELSE undoTimes(undo(h), n - 1)

\* The states newGame deals in SpecSession.
SessionDeals == {createSeededHistory(seed, StartTime).present : seed \in SessionSeeds}

=============================================================================
